---- MODULE Spec2Model ----
(***************************************************************************)
(* Model of filters::StepFilter<grid_map::GridMap>                         *)
(* (traversability_estimation_filters/src/StepFilter.cpp).                 *)
(*                                                                         *)
(* The raster is a single row of NumCells square cells; horizontal lengths *)
(* are measured in cell widths, so cell i has its centre at position i and *)
(* a disc of radius r centred on cell i holds the cells j with             *)
(* (j - i)^2 <= r^2.  Heights (elevation, criticalValue_, step_height) are *)
(* exact rationals <<numerator, denominator>> with denominator > 0; the    *)
(* not-a-number value that grid_map uses for "no data" is <<0, 0>>.        *)
(***************************************************************************)
EXTENDS Integers, Sequences, FiniteSets, TLC

VARIABLES criticalValue_, firstWindowRadius_, secondWindowRadius_,
          nCellCritical_, type_,
          op, paramSource, configureReturn,
          raster, mapIn, afterFirstPass, gridOrder, circleOrder

config == <<criticalValue_, firstWindowRadius_, secondWindowRadius_,
            nCellCritical_, type_>>

vars == <<criticalValue_, firstWindowRadius_, secondWindowRadius_,
          nCellCritical_, type_, op, paramSource, configureReturn,
          raster, mapIn, afterFirstPass, gridOrder, circleOrder>>

(***************************************************************************)
(* Bounds of the model.                                                    *)
(***************************************************************************)
NumCells == 3

Cells == 1..NumCells

\* Heights an input raster may carry in its elevation layer (plus NaN).
ElevValues == {0, 1, 3}

(***************************************************************************)
(* Constructor defaults.  Heights are in units of 0.1 m and horizontal     *)
(* lengths in units of 0.08 m (one cell width).                            *)
(***************************************************************************)
DefaultCriticalValue == 3
DefaultFirstWindowRadius == 1
DefaultSecondWindowRadius == 1
DefaultNCellCritical == 5
DefaultType == "traversability_step"

(***************************************************************************)
(* Exact arithmetic on cell values.                                        *)
(***************************************************************************)
NaN == <<0, 0>>

Abs(x) == IF x < 0 THEN -x ELSE x

RECURSIVE GCD(_, _)
GCD(a, b) == IF b = 0 THEN a ELSE GCD(b, a % b)

\* n/d in lowest terms, d > 0.
Norm(n, d) ==
  IF d = 1 THEN <<n, 1>>
  ELSE LET g == GCD(Abs(n), d) IN <<n \div g, d \div g>>

R(k) == <<k, 1>>

RLess(a, b) == a[1] * b[2] < b[1] * a[2]

RSub(a, b) == Norm(a[1] * b[2] - b[1] * a[2], a[2] * b[2])

RAbs(a) == <<Abs(a[1]), a[2]>>

RScale(k, a) == Norm(k * a[1], a[2])

\* a / b for b > 0.
RDiv(a, b) == Norm(a[1] * b[2], a[2] * b[1])

RMin(a, b) == IF RLess(b, a) THEN b ELSE a

\* std::isfinite
IsFinite(v) == v[2] # 0

(***************************************************************************)
(* The parameter source handed to configure(): each key is absent (<<>>)   *)
(* or present with one value (<<v>>).                                      *)
(***************************************************************************)
Opt(S) == {<<>>} \cup {<<v>> : v \in S}

ParamSource(CV, R1, R2, NC, MT) ==
  [critical_value : CV, first_window_radius : R1, second_window_radius : R2,
   critical_cell_number : NC, map_type : MT]

NoParams == [critical_value |-> <<>>, first_window_radius |-> <<>>,
             second_window_radius |-> <<>>, critical_cell_number |-> <<>>,
             map_type |-> <<>>]

\* FilterBase<T>::getParam: found iff the key is present.
getParam(src, key) == Len(src[key]) = 1

(***************************************************************************)
(* StepFilter<T>::configure().  getParam writes straight into the member,  *)
(* so each member read before the point of failure keeps the new value.    *)
(* Returns the members after the call and the call's return value.         *)
(***************************************************************************)
configure(cfg, src) ==
  IF ~getParam(src, "critical_value") THEN [cfg |-> cfg, ret |-> FALSE]
  ELSE LET c1 == [cfg EXCEPT !.criticalValue_ = src.critical_value[1]] IN
  IF c1.criticalValue_ < 0 THEN [cfg |-> c1, ret |-> FALSE]
  ELSE IF ~getParam(src, "first_window_radius") THEN [cfg |-> c1, ret |-> FALSE]
  ELSE LET c2 == [c1 EXCEPT !.firstWindowRadius_ = src.first_window_radius[1]] IN
  IF c2.firstWindowRadius_ < 0 THEN [cfg |-> c2, ret |-> FALSE]
  ELSE IF ~getParam(src, "second_window_radius") THEN [cfg |-> c2, ret |-> FALSE]
  ELSE LET c3 == [c2 EXCEPT !.secondWindowRadius_ = src.second_window_radius[1]] IN
  IF c3.secondWindowRadius_ < 0 THEN [cfg |-> c3, ret |-> FALSE]
  ELSE IF ~getParam(src, "critical_cell_number") THEN [cfg |-> c3, ret |-> FALSE]
  ELSE LET c4 == [c3 EXCEPT !.nCellCritical_ = src.critical_cell_number[1]] IN
  IF c4.nCellCritical_ <= 0 THEN [cfg |-> c4, ret |-> FALSE]
  ELSE IF ~getParam(src, "map_type") THEN [cfg |-> c4, ret |-> FALSE]
  ELSE [cfg |-> [c4 EXCEPT !.type_ = src.map_type[1]], ret |-> TRUE]

members == [criticalValue_ |-> criticalValue_,
            firstWindowRadius_ |-> firstWindowRadius_,
            secondWindowRadius_ |-> secondWindowRadius_,
            nCellCritical_ |-> nCellCritical_,
            type_ |-> type_]

(***************************************************************************)
(* grid_map::GridMap as the filter uses it: an ordered list of layer names *)
(* and one matrix per layer.                                               *)
(***************************************************************************)
AllNaN == [c \in Cells |-> NaN]

exists(m, layer) == layer \in DOMAIN m.data

\* add() as it would be if an existing layer were left as it is.
addKeepExisting(m, layer) ==
  IF layer \in DOMAIN m.data THEN m
  ELSE [layers |-> Append(m.layers, layer), data |-> (layer :> AllNaN) @@ m.data]

\* GridMap::add(layer): a new layer is appended filled with NaN; an existing
\* layer of that name has its data overwritten with NaN.
add(m, layer) ==
  IF exists(m, layer)
  THEN [m EXCEPT !.data[layer] = AllNaN]
  ELSE [layers |-> Append(m.layers, layer), data |-> (layer :> AllNaN) @@ m.data]

\* GridMap::erase(layer): removes the layer's data and its name.
erase(m, layer) ==
  IF ~exists(m, layer) THEN m
  ELSE [layers |-> SelectSeq(m.layers, LAMBDA l : l # layer),
        data |-> [l \in DOMAIN m.data \ {layer} |-> m.data[l]]]

at(m, layer, c) == m.data[layer][c]

isValid(m, c, layer) == IsFinite(at(m, layer, c))

\* mapOut.at(layer, index) = value
write(m, layer, c, value) == [m EXCEPT !.data[layer][c] = value]

(***************************************************************************)
(* The iterators.  The order in which an iterator yields its cells is the  *)
(* library's: "forward" is ascending cell index, "reverse" descending.     *)
(***************************************************************************)
Orders == {"forward", "reverse"}

Ascending == [i \in 1..NumCells |-> i]

Descending == [i \in 1..NumCells |-> NumCells + 1 - i]

\* The cells of S in the iterator's order.
InOrder(S, order) ==
  SelectSeq(IF order = "forward" THEN Ascending ELSE Descending, LAMBDA c : c \in S)

\* GridMapIterator: every cell of the raster exactly once.
GridMapIterator(order) == InOrder(Cells, order)

\* The cells whose centre lies in the disc of the given radius around center.
Disc(center, radius) ==
  {c \in Cells : (c - center) * (c - center) <= radius * radius}

\* CircleIterator(mapOut, center, radius)
CircleIterator(center, radius, order) == InOrder(Disc(center, radius), order)

(***************************************************************************)
(* update(), first iteration: the step-height pass.                        *)
(***************************************************************************)
\* The step without std::abs.
stepOfSigned(height, elevation) == RSub(height, elevation)

\* step = std::abs(height - elevation(c'))
stepOf(height, elevation) == RAbs(RSub(height, elevation))

\* The inner loop: the highest step in the circular window.
RECURSIVE firstWindowScan(_, _, _, _)
firstWindowScan(m, height, window, stepMax) ==
  IF window = <<>> THEN stepMax
  ELSE LET c == Head(window) IN
       IF ~isValid(m, c, "elevation")
       THEN firstWindowScan(m, height, Tail(window), stepMax)
       ELSE LET step == stepOf(height, at(m, "elevation", c)) IN
            firstWindowScan(m, height, Tail(window),
                            IF RLess(stepMax, step) THEN step ELSE stepMax)

\* The body of the outer loop for one cell.
firstPassCell(m, c, radius, cOrder) ==
  IF ~isValid(m, c, "elevation") THEN m
  ELSE LET stepMax == firstWindowScan(m, at(m, "elevation", c),
                                      CircleIterator(c, radius, cOrder), R(0))
       IN IF RLess(R(0), stepMax) THEN write(m, "step_height", c, stepMax) ELSE m

RECURSIVE firstPass(_, _, _, _)
firstPass(m, cells, radius, cOrder) ==
  IF cells = <<>> THEN m
  ELSE firstPass(firstPassCell(m, Head(cells), radius, cOrder),
                 Tail(cells), radius, cOrder)

(***************************************************************************)
(* update(), second iteration: the cost-aggregation pass.                  *)
(***************************************************************************)
\* The window step with the threshold test the wrong way round.
secondWindowStepCountBelow(acc, value, criticalValue) ==
  IF ~IsFinite(value) THEN acc
  ELSE IF RLess(acc.stepMax, value)
       THEN [nCells |-> IF RLess(value, criticalValue) THEN acc.nCells + 1
                        ELSE acc.nCells,
             stepMax |-> value, isValid |-> TRUE]
       ELSE [acc EXCEPT !.isValid = TRUE]

\* One value of the second window against the running maximum: acc is
\* [nCells, stepMax, isValid].
secondWindowStep(acc, value, criticalValue) ==
  IF ~IsFinite(value) THEN acc
  ELSE IF RLess(acc.stepMax, value)
       THEN [nCells |-> IF RLess(criticalValue, value) THEN acc.nCells + 1
                        ELSE acc.nCells,
             stepMax |-> value, isValid |-> TRUE]
       ELSE [acc EXCEPT !.isValid = TRUE]

RECURSIVE secondWindowScan(_, _, _, _)
secondWindowScan(m, window, acc, criticalValue) ==
  IF window = <<>> THEN acc
  ELSE secondWindowScan(m, Tail(window),
         secondWindowStep(acc, at(m, "step_height", Head(window)), criticalValue),
         criticalValue)

\* step = std::min(stepMax, nCells / nCellCritical_ * stepMax): the quotient
\* of the two ints is taken first and truncates.
dampened(stepMax, nCells, nCellCritical) ==
  RMin(stepMax, RScale(nCells \div nCellCritical, stepMax))

\* The cost without the branch that clamps it to 0.
cellCostUnclamped(step, criticalValue) ==
  IF criticalValue[1] = 0 THEN R(0) ELSE RSub(R(1), RDiv(step, criticalValue))

\* The value written to the output cell.
cellCost(step, criticalValue) ==
  IF RLess(step, criticalValue)
  THEN RSub(R(1), RDiv(step, criticalValue))
  ELSE R(0)

secondPassCell(m, c, cfg, cOrder) ==
  LET acc == secondWindowScan(m, CircleIterator(c, cfg.secondWindowRadius_, cOrder),
                              [nCells |-> 0, stepMax |-> R(0), isValid |-> FALSE],
                              R(cfg.criticalValue_))
  IN IF acc.isValid
     THEN write(m, cfg.type_, c,
                cellCost(dampened(acc.stepMax, acc.nCells, cfg.nCellCritical_),
                         R(cfg.criticalValue_)))
     ELSE m

RECURSIVE secondPass(_, _, _, _)
secondPass(m, cells, cfg, cOrder) ==
  IF cells = <<>> THEN m
  ELSE secondPass(secondPassCell(m, Head(cells), cfg, cOrder), Tail(cells), cfg, cOrder)

(***************************************************************************)
(* update(mapIn, mapOut), stage by stage.                                  *)
(***************************************************************************)
\* mapOut = mapIn; mapOut.add(type_); mapOut.add("step_height");
addLayers(in, cfg) == add(add(in, cfg.type_), "step_height")

stepHeightPass(in, cfg, gOrder, cOrder) ==
  firstPass(addLayers(in, cfg), GridMapIterator(gOrder), cfg.firstWindowRadius_, cOrder)

costPass(m, cfg, gOrder, cOrder) == secondPass(m, GridMapIterator(gOrder), cfg, cOrder)

\* update() without its closing erase.
eraseStepHeightSkipped(m) == m

\* mapOut.erase("step_height")
eraseStepHeight(m) == erase(m, "step_height")

update(in, cfg, gOrder, cOrder) ==
  eraseStepHeight(costPass(stepHeightPass(in, cfg, gOrder, cOrder), cfg, gOrder, cOrder))

(***************************************************************************)
(* Inputs.                                                                 *)
(***************************************************************************)
Heights == {NaN} \cup {R(h) : h \in ElevValues}

\* Layers the input raster may carry besides elevation, each filled with 0.
ExtraLayers == {<<>>, <<"traversability_step", "step_height">>}

InputRaster(elevation, extra) ==
  [layers |-> <<"elevation">> \o extra,
   data |-> [l \in {"elevation"} \cup {extra[i] : i \in 1..Len(extra)} |->
               IF l = "elevation" THEN elevation ELSE [c \in Cells |-> R(0)]]]

InputRasters == {InputRaster(e, x) : e \in [Cells -> Heights], x \in ExtraLayers}

EmptyRaster == [layers |-> <<>>, data |-> <<>>]

\* Parameter sources in which every key is present.
CompleteSources ==
  ParamSource({<<v>> : v \in 0..2}, {<<v>> : v \in 0..1}, {<<v>> : v \in 0..1},
              {<<v>> : v \in 1..2},
              {<<v>> : v \in {"traversability_step", "step_height"}})

\* Parameter sources with keys absent and values out of range.
AnySources ==
  ParamSource(Opt({-1, 0, 2}), Opt({-1, 0, 1}), Opt({-1, 1}), Opt({0, 2}),
              Opt({"", "traversability_step"}))

(***************************************************************************)
(* The state machine.                                                      *)
(***************************************************************************)
\* StepFilter<T>::StepFilter()
Constructed ==
  /\ criticalValue_ = DefaultCriticalValue
  /\ firstWindowRadius_ = DefaultFirstWindowRadius
  /\ secondWindowRadius_ = DefaultSecondWindowRadius
  /\ nCellCritical_ = DefaultNCellCritical
  /\ type_ = DefaultType
  /\ op = "construct"
  /\ paramSource = NoParams
  /\ configureReturn = FALSE
  /\ mapIn = EmptyRaster
  /\ afterFirstPass = EmptyRaster
  /\ gridOrder = "forward"
  /\ circleOrder = "forward"

Init == Constructed /\ raster \in InputRasters

\* The host configures the filter before the first scan.
Configure(src) ==
  /\ op # "update"
  /\ LET r == configure(members, src) IN
       /\ criticalValue_' = r.cfg.criticalValue_
       /\ firstWindowRadius_' = r.cfg.firstWindowRadius_
       /\ secondWindowRadius_' = r.cfg.secondWindowRadius_
       /\ nCellCritical_' = r.cfg.nCellCritical_
       /\ type_' = r.cfg.type_
       /\ configureReturn' = r.ret
  /\ op' = "configure"
  /\ paramSource' = src
  /\ UNCHANGED <<raster, mapIn, afterFirstPass, gridOrder, circleOrder>>

\* update(raster, raster): the host runs a scan only on a filter whose
\* configure() returned true, and feeds each result back as the next input.
\* The iterators enumerate in the same order in every call.
Update(gOrder, cOrder) ==
  /\ configureReturn
  /\ op = "update" => gOrder = gridOrder /\ cOrder = circleOrder
  /\ mapIn' = raster
  /\ afterFirstPass' = stepHeightPass(raster, members, gOrder, cOrder)
  /\ raster' = eraseStepHeight(costPass(afterFirstPass', members, gOrder, cOrder))
  /\ gridOrder' = gOrder
  /\ circleOrder' = cOrder
  /\ op' = "update"
  /\ UNCHANGED <<criticalValue_, firstWindowRadius_, secondWindowRadius_,
                 nCellCritical_, type_, paramSource, configureReturn>>

\* The host configures the filter once, then scans raster after raster.
Next ==
  \/ \E src \in CompleteSources : op = "construct" /\ Configure(src)
  \/ \E gOrder \in Orders, cOrder \in Orders : Update(gOrder, cOrder)

Spec == Init /\ [][Next]_vars

\* One scan of a raster that carries elevation alone.
InitPure == Constructed /\ raster \in {InputRaster(e, <<>>) : e \in [Cells -> Heights]}

NextPure ==
  \/ \E src \in CompleteSources : op = "construct" /\ Configure(src)
  \/ \E gOrder \in Orders, cOrder \in Orders : op = "configure" /\ Update(gOrder, cOrder)

SpecPure == InitPure /\ [][NextPure]_vars

\* Configuration alone, on one raster, over every kind of parameter source.
InitConfig == Constructed /\ raster = InputRaster(AllNaN, <<>>)

\* The host calls configure() again for as long as it has failed.
NextConfig == \E src \in AnySources : ~configureReturn /\ Configure(src)

SpecConfig == InitConfig /\ [][NextConfig]_vars

(***************************************************************************)
(* Properties.                                                             *)
(***************************************************************************)
Scanned == op = "update" /\ exists(raster, type_)

cost(c) == at(raster, type_, c)

stepHeight(c) == at(afterFirstPass, "step_height", c)

\* C1: after update() every cell of the output layer is invalid or holds a
\* value v with 0 <= v <= 1, for every configuration configure() accepted.
C1_CostInUnitInterval ==
  Scanned =>
    \A c \in Cells :
      IsFinite(cost(c)) => ~RLess(cost(c), R(0)) /\ ~RLess(R(1), cost(c))

\* A scan that left one cell at cost 1 and another at cost 0.
C1_Witness ==
  /\ Scanned
  /\ \E c \in Cells : cost(c) = R(1)
  /\ \E c \in Cells : cost(c) = R(0)

\* C2: every raster update() returns carries exactly the layers of the raster
\* it was given plus the output layer: no step_height layer, the output layer
\* once, no input layer missing.
C2_ExactlyInputLayersPlusOutput ==
  op = "update" =>
    LET names(m) == {m.layers[i] : i \in 1..Len(m.layers)} IN
      /\ "step_height" \notin names(raster)
      /\ Cardinality({i \in 1..Len(raster.layers) : raster.layers[i] = type_}) = 1
      /\ names(mapIn) \subseteq names(raster)
      /\ names(raster) \subseteq names(mapIn) \cup {type_}

\* C3: configure() returns true exactly when all five parameters are present
\* and criticalValue > 0, firstWindowRadius > 0, secondWindowRadius > 0,
\* nCellCritical > 0 and the output layer name is non-empty.
C3_SuccessIffAllValid ==
  op = "configure" =>
    (configureReturn <=>
       /\ \A key \in DOMAIN paramSource : getParam(paramSource, key)
       /\ paramSource.critical_value[1] > 0
       /\ paramSource.first_window_radius[1] > 0
       /\ paramSource.second_window_radius[1] > 0
       /\ paramSource.critical_cell_number[1] > 0
       /\ paramSource.map_type[1] # "")

\* C4: a configure() that fails leaves the five stored configuration values as
\* they were before the call.
C4_FailureKeepsConfiguration ==
  [][(op' = "configure" /\ ~configureReturn') => config' = config]_vars

\* C5: after update() an output cell is valid if and only if some cell of its
\* second window had a valid step_height after the step-height pass, also when
\* the input raster already carried a layer with the output layer's name.
C5_ValidIffStepHeightInWindow ==
  Scanned =>
    \A c \in Cells :
      IsFinite(cost(c)) <=>
        \E d \in Disc(c, secondWindowRadius_) : IsFinite(stepHeight(d))

\* The input already carried the output layer (filled with 0), and the scan
\* left one output cell invalid and made another valid.
C5_Witness ==
  /\ Scanned
  /\ exists(mapIn, type_)
  /\ \E c \in Cells : at(mapIn, type_, c) = R(0) /\ cost(c) = NaN
  /\ \E c \in Cells : IsFinite(cost(c))

\* C6 (as stated): on a raster that is 0 everywhere except one spike of height
\* h, |h| > criticalValue, with firstWindowRadius covering the spike's
\* neighbours, every other cell within secondWindowRadius of the spike gets
\* cost exactly 0, for every valid configuration.
C6_SpikeNeighboursCostZero ==
  \A s \in Cells :
    ( /\ Scanned
      /\ criticalValue_ > 0 /\ firstWindowRadius_ >= 1 /\ secondWindowRadius_ > 0
      /\ \A c \in Cells \ {s} : at(mapIn, "elevation", c) = R(0)
      /\ IsFinite(at(mapIn, "elevation", s))
      /\ RLess(R(criticalValue_), RAbs(at(mapIn, "elevation", s))) )
    => \A c \in Disc(s, secondWindowRadius_) \ {s} : cost(c) = R(0)

\* C6 (amended): the same, for nCellCritical = 1.
C6_SpikeNeighboursCostZeroWhenOneCellCritical ==
  \A s \in Cells :
    ( /\ Scanned
      /\ criticalValue_ > 0 /\ firstWindowRadius_ >= 1 /\ secondWindowRadius_ > 0
      /\ nCellCritical_ = 1
      /\ \A c \in Cells \ {s} : at(mapIn, "elevation", c) = R(0)
      /\ IsFinite(at(mapIn, "elevation", s))
      /\ RLess(R(criticalValue_), RAbs(at(mapIn, "elevation", s))) )
    => \A c \in Disc(s, secondWindowRadius_) \ {s} : cost(c) = R(0)

\* A spike in the middle of the row, scanned with nCellCritical = 1: both of
\* its neighbours hold cost 0.
C6_Witness ==
  /\ Scanned
  /\ criticalValue_ > 0 /\ firstWindowRadius_ >= 1 /\ secondWindowRadius_ > 0
  /\ nCellCritical_ = 1
  /\ \E s \in Cells :
       /\ \A c \in Cells \ {s} : at(mapIn, "elevation", c) = R(0)
       /\ IsFinite(at(mapIn, "elevation", s))
       /\ RLess(R(criticalValue_), RAbs(at(mapIn, "elevation", s)))
       /\ Cardinality(Disc(s, secondWindowRadius_) \ {s}) = 2
       /\ \A c \in Disc(s, secondWindowRadius_) \ {s} : cost(c) = R(0)

\* The output layer update() computes from the last input under another
\* criticalValue, all else as it was.
costUnder(k) ==
  update(mapIn, [members EXCEPT !.criticalValue_ = k], gridOrder, circleOrder).data[type_]

\* C7 (as stated): for criticalValue settings 0 < k1 < k2, all else fixed,
\* every output cell valid under both has cost(k2) <= cost(k1).
C7_CostFallsWithCriticalValue ==
  Scanned =>
    \A k1 \in 1..(criticalValue_ - 1) : \A c \in Cells :
      IsFinite(cost(c)) /\ IsFinite(costUnder(k1)[c])
        => ~RLess(costUnder(k1)[c], cost(c))

\* C7 (amended): for criticalValue settings 0 < k1 < k2, all else fixed, every
\* output cell valid under both has cost(k2) >= cost(k1).
C7_CostRisesWithCriticalValue ==
  Scanned =>
    \A k1 \in 1..(criticalValue_ - 1) : \A c \in Cells :
      IsFinite(cost(c)) /\ IsFinite(costUnder(k1)[c])
        => ~RLess(cost(c), costUnder(k1)[c])

\* A cell whose cost is 1 under the criticalValue of the scan and 0 under a
\* smaller one.
C7_Witness ==
  /\ Scanned
  /\ \E k1 \in 1..(criticalValue_ - 1) : \E c \in Cells :
       cost(c) = R(1) /\ costUnder(k1)[c] = R(0)

\* C8 (as stated): the raster update() returns is the same whatever order the
\* full-grid iterator and the disc-window iterator enumerate their cells in.
C8_SameUnderEveryOrder ==
  op = "update" =>
    \A g \in Orders, w \in Orders : raster = update(mapIn, members, g, w)

\* C8 (amended): for a given enumeration order of the disc-window iterator,
\* the raster update() returns is the same whatever order the full-grid
\* iterator enumerates the cells in.
C8_SameUnderEveryGridOrder ==
  op = "update" =>
    \A g \in Orders : raster = update(mapIn, members, g, circleOrder)

\* A scan in reverse grid order whose output has valid cells and would have
\* differed under the other disc-window order.
C8_Witness ==
  /\ Scanned
  /\ gridOrder = "reverse"
  /\ \E c \in Cells : IsFinite(cost(c))
  /\ \E w \in Orders : raster # update(mapIn, members, "forward", w)

\* C9: after the step-height pass, step_height(c) is the maximum of
\* |elevation(c) - elevation(c')| over the valid cells c' of the first window
\* when elevation(c) is valid and that maximum is greater than 0, and is
\* invalid otherwise; the pass does not write the elevation layer.
C9_StepHeightIsWindowMaximum ==
  op = "update" =>
    LET elevation == addLayers(mapIn, members).data["elevation"]
        diff(a, b) == IF RLess(a, b) THEN RSub(b, a) ELSE RSub(a, b)
        steps(c) == {diff(elevation[c], elevation[d]) :
                       d \in {d \in Disc(c, firstWindowRadius_) : IsFinite(elevation[d])}}
    IN /\ afterFirstPass.data["elevation"] = elevation
       /\ \A c \in Cells :
            IF IsFinite(elevation[c]) /\ \E x \in steps(c) : RLess(R(0), x)
            THEN /\ stepHeight(c) \in steps(c)
                 /\ \A x \in steps(c) : ~RLess(stepHeight(c), x)
            ELSE stepHeight(c) = NaN

\* A pass that wrote a step_height and left a cell with valid elevation
\* without one (its window is flat).
C9_Witness ==
  /\ op = "update"
  /\ \E c \in Cells : IsFinite(stepHeight(c))
  /\ \E c \in Cells : IsFinite(at(afterFirstPass, "elevation", c)) /\ stepHeight(c) = NaN

\* C10: for every configuration configure() accepted and every cell with a
\* valid step_height in its second window, nCells < nCellCritical makes the
\* output cost exactly 1.
C10_FewCriticalCellsCostOne ==
  Scanned =>
    \A c \in Cells :
      LET acc == secondWindowScan(afterFirstPass,
                   CircleIterator(c, secondWindowRadius_, circleOrder),
                   [nCells |-> 0, stepMax |-> R(0), isValid |-> FALSE],
                   R(criticalValue_))
      IN acc.isValid /\ acc.nCells < nCellCritical_ => cost(c) = R(1)

====
